---- MODULE Spec2Model ----
(***************************************************************************)
(* Cross-chain modulus switching (ModulusSwitcher) and the bootstrap       *)
(* pipeline that uses it.                                                  *)
(*                                                                         *)
(* A residue row of an RNS polynomial is modelled by what the last ring    *)
(* operation that wrote it determined: the prime it is reduced by (q), the *)
(* representation it is in (dom), whether it was left in the lazy range    *)
(* [0, 2q) (lazy) and the call that wrote it (by; 0 = not written by a     *)
(* switcher call).  The number of rows of a polynomial is its level + 1.   *)
(***************************************************************************)
EXTENDS Integers, Sequences, FiniteSets, TLC

\* Number of switcher calls (SwitchNew, SwitchSecretKey) one behaviour makes.
MaxCalls == 2

\* [2]ring.Poly: the length of BuffQ1 and of BuffQ2.
BuffLen == 2

----------------------------------------------------------------------------
(* Parameter literals and the parameters built from them                   *)

Rep(b, n) == [k \in 1..n |-> b]

Literal(logN, logQ, logP, scale) ==
  [LogN |-> logN, LogQ |-> logQ, LogP |-> logP, LogDefaultScale |-> scale]

\* How many earlier entries of the bit-size list s have the size of entry k.
Occ(s, k) == Cardinality({j \in 1..(k - 1) : s[j] = s[k]})

\* The idx-th NTT-friendly prime of the given bit size for ring degree 2^logN.
PrimeOf(logN, bits, idx) == logN * 10000 + bits * 100 + idx

\* The primes are generated per bit size, in order, first for Q then for P.
NewParametersFromLiteral(lit) ==
  LET all == lit.LogQ \o lit.LogP
      nq  == Len(lit.LogQ)
  IN [N     |-> lit.LogN,
      Q     |-> [k \in 1..nq |-> PrimeOf(lit.LogN, all[k], Occ(all, k))],
      P     |-> [k \in 1..Len(lit.LogP) |->
                    PrimeOf(lit.LogN, all[nq + k], Occ(all, nq + k))],
      scale |-> lit.LogDefaultScale]

\* The example configuration of main.
ExampleLogQ ==
  <<55>> \o <<39, 39, 39>> \o Rep(40, 9) \o Rep(60, 8) \o Rep(56, 4)

ExampleLogQ2 ==
  <<55>> \o <<39, 39, 39>> \o Rep(60, 6) \o Rep(60, 8) \o Rep(56, 4)

ExampleLogP == Rep(61, 5)

\* Small parameter literals of the same shapes.
LitA == Literal(13, <<55, 40, 40>>, <<61>>, 40)

LitB == Literal(13, <<50, 45>>, <<61>>, 45)

LitC == Literal(13, <<52, 47, 47>>, <<61>>, 47)

LitD == Literal(13, <<55, 60>>, <<61>>, 45)

LitE == Literal(13, <<52, 47, 47>>, <<61, 61>>, 47)

LitF == Literal(14, <<50, 45>>, <<61>>, 45)

\* The pairs of literals a ModulusSwitcher is built from: chain1 longer than
\* chain2, shorter, as long; chains that share a prime (as in the example);
\* different P; different ring degree.
Configs ==
  {<<LitA, LitB>>, <<LitB, LitA>>, <<LitA, LitC>>, <<LitA, LitD>>,
   <<LitE, LitB>>, <<LitA, LitF>>}

MaxLevelQ(p) == Len(p.Q) - 1

Range(s) == {s[k] : k \in DOMAIN s}

----------------------------------------------------------------------------
(* Rings, polynomials, ciphertexts                                         *)

ZeroRow == [q |-> 0, dom |-> "zero", lazy |-> FALSE, by |-> 0]

\* ring.NewPoly at a level: level + 1 zero rows.
NewPoly(level) == [j \in 1..(level + 1) |-> ZeroRow]

\* ring.AtLevel panics for a negative level and for a level above the maximum.
AtLevelOK(p, level) == level >= 0 /\ level <= MaxLevelQ(p)

Level(ct) == Len(ct.Value[1]) - 1

Degree(ct) == Len(ct.Value) - 1

\* rlwe.NewCiphertext(params, degree, level), valid only when AtLevelOK.
NewCiphertext(p, degree, level) ==
  [Value         |-> [k \in 1..(degree + 1) |-> NewPoly(level)],
   Scale         |-> 0,
   IsNTT         |-> TRUE,
   IsBatched     |-> FALSE,
   LogDimensions |-> 0]

\* What the inverse / forward transform and the basis extension make of a row.
InvDom(d) == CASE d = "ntt" -> "coef" [] d = "zero" -> "coef" [] OTHER -> "bad"

FwdDom(d) == IF d = "coef" THEN "ntt" ELSE "bad"

ExtDom(ds) == IF ds \subseteq {"coef"} THEN "coef" ELSE "bad"

----------------------------------------------------------------------------
(* The ModulusSwitcher                                                     *)

VARIABLES
  ms,      \* the ModulusSwitcher instances: params1, params2, BuffQ1, BuffQ2
  calls,   \* the SwitchNew calls in progress, one per caller
  nextId,  \* the number of the next switcher call
  hist,    \* the finished calls, oldest first
  main     \* the example program: its position, ciphertext and stage trace

NoMS == [exists |-> FALSE]

Idle == [pc |-> "idle"]

NoCt == [Value |-> <<>>]

\* newModulusSwitcherBase, newModulusSwitcherBuffers: nothing is validated.
NewModulusSwitcher(p1, p2) ==
  [exists  |-> TRUE,
   params1 |-> p1,
   params2 |-> p2,
   BuffQ1  |-> [k \in 1..BuffLen |-> NewPoly(MaxLevelQ(p1))],
   BuffQ2  |-> [k \in 1..BuffLen |-> NewPoly(MaxLevelQ(p2))]]

\* ringQ1 and ringQ2 of SwitchNew: the source and the destination chain.
SrcParams(sw, dir) == IF dir THEN sw.params1 ELSE sw.params2

DstParams(sw, dir) == IF dir THEN sw.params2 ELSE sw.params1

\* (levelQ2 clamped at 0 instead of left negative)
DestLevelClamped(sw, dir, levelQ1) ==
  LET l == IF dir
             THEN levelQ1 - MaxLevelQ(sw.params1) + MaxLevelQ(sw.params2)
             ELSE levelQ1 - MaxLevelQ(sw.params2) + MaxLevelQ(sw.params1)
  IN IF l < 0 THEN 0 ELSE l

\* levelQ2.
DestLevel(sw, dir, levelQ1) ==
  IF dir
    THEN levelQ1 - MaxLevelQ(sw.params1) + MaxLevelQ(sw.params2)
    ELSE levelQ1 - MaxLevelQ(sw.params2) + MaxLevelQ(sw.params1)

\* The parameters and the level SwitchNew allocates ctOut with.
OutParams(sw, dir) == IF dir THEN sw.params1 ELSE sw.params1

OutLevel(dir, levelQ1, levelQ2) == IF dir THEN levelQ1 ELSE levelQ2

\* (the scale taken from the source chain's parameters)
OutScaleOfSource(sw, dir) == IF dir THEN sw.params1.scale ELSE sw.params2.scale

\* ctOut.Scale = rs.params2.DefaultScale() / rs.params1.DefaultScale()
OutScale(sw, dir) == IF dir THEN sw.params2.scale ELSE sw.params1.scale

\* (LogDimensions left as NewCiphertext set it)
CopyMetaNoDims(ctOut, ctIn) ==
  [ctOut EXCEPT !.IsNTT = ctIn.IsNTT, !.IsBatched = ctIn.IsBatched]

\* ctOut.El().IsNTT, .IsBatched, .LogDimensions = those of ctIn.El()
CopyMeta(ctOut, ctIn) ==
  [ctOut EXCEPT !.IsNTT = ctIn.IsNTT,
                !.IsBatched = ctIn.IsBatched,
                !.LogDimensions = ctIn.LogDimensions]

\* buffQ1 and buffQ2 of SwitchNew.
BuffSrc(dir) == IF dir THEN "BuffQ1" ELSE "BuffQ2"

\* (the basis extension done within the direction's one buffer)
BuffDstOfDirection(dir) == IF dir THEN "BuffQ1" ELSE "BuffQ2"

BuffDst(dir) == IF dir THEN "BuffQ2" ELSE "BuffQ1"

\* ring.INTTLazy at a level: rows 0..level of pOut are written from pIn.
INTTLazy(p, level, pIn, pOut, id) ==
  [j \in 1..Len(pOut) |->
     IF j <= level + 1
       THEN [q |-> p.Q[j], dom |-> InvDom(pIn[j].dom), lazy |-> TRUE, by |-> id]
       ELSE pOut[j]]

\* ring.NTT (lazy = FALSE) and ring.NTTLazy (lazy = TRUE) at a level.
NTT(p, level, pIn, pOut, lazy, id) ==
  [j \in 1..Len(pOut) |->
     IF j <= level + 1
       THEN [q |-> p.Q[j], dom |-> FwdDom(pIn[j].dom), lazy |-> lazy, by |-> id]
       ELSE pOut[j]]

\* BasisExtender.ModUpQtoP / ModUpPtoQ: rows 0..levelSrc of polSrc are read,
\* rows 0..levelDst of polDst are written with residues of the target primes.
ModUp(pDst, levelSrc, levelDst, polSrc, polDst, id) ==
  [j \in 1..Len(polDst) |->
     IF j <= levelDst + 1
       THEN [q    |-> pDst.Q[j],
             dom  |-> ExtDom({polSrc[k].dom : k \in 1..(levelSrc + 1)}),
             lazy |-> FALSE,
             by   |-> id]
       ELSE polDst[j]]

\* The rows of pol a ring operation at this level reads, by their writer.
ReadBy(pol, level) == {pol[k].by : k \in 1..(level + 1)}

\* The identity of a polynomial: the object that holds it (a scratch buffer
\* of switcher owner, the input or the output of call owner) and its index.
PolyId(obj, owner, k) == [obj |-> obj, owner |-> owner, k |-> k]

\* The polynomials rlwe.NewCiphertext allocates for ctOut: new ones.
AllocOut(id, degree) == [k \in 1..(degree + 1) |-> PolyId("ctOut", id, k)]

\* The two chains have one ring degree: a ring operation of one chain on a
\* polynomial of the other is defined only then.
SameRingDegree(sw) == sw.params1.N = sw.params2.N

\* A polynomial whose rows hold no meaningful residues.
Garbled(pol) == [k \in DOMAIN pol |-> [pol[k] EXCEPT !.dom = "bad"]]

\* SwitchNew up to the loops: levels, ctOut, the rings, scale and metadata.
EnterCall(sw, id, inst, ctIn, dir, chained) ==
  LET levelQ1 == Level(ctIn)
      levelQ2 == DestLevel(sw, dir, levelQ1)
      lvOut   == OutLevel(dir, levelQ1, levelQ2)
      ok      == /\ AtLevelOK(OutParams(sw, dir), lvOut)
                 /\ AtLevelOK(SrcParams(sw, dir), levelQ1)
                 /\ AtLevelOK(DstParams(sw, dir), levelQ2)
      ctOut   == CopyMeta([NewCiphertext(OutParams(sw, dir), Degree(ctIn),
                                         lvOut)
                            EXCEPT !.Scale = OutScale(sw, dir)], ctIn)
  IN [pc      |-> IF ok THEN "intt" ELSE "done",
      outcome |-> IF ok THEN "run" ELSE "panic",
      op      |-> "SwitchNew",
      id      |-> id,
      inst    |-> inst,
      dir     |-> dir,
      chained |-> chained,
      ctIn    |-> ctIn,
      ctOut   |-> IF ok THEN ctOut ELSE NoCt,
      levelQ1 |-> levelQ1,
      levelQ2 |-> levelQ2,
      i       |-> 0,
      reads   |-> {},
      wrote   |-> FALSE,
      pre      |-> [ctIn |-> ctIn, params1 |-> sw.params1,
                    params2 |-> sw.params2],
      outPolys |-> IF ok THEN AllocOut(id, Degree(ctIn)) ELSE <<>>,
      writes   |-> {},
      used     |-> {}]

Panicked(c) == [c EXCEPT !.pc = "done", !.outcome = "panic", !.ctOut = NoCt]

\* (the inverse transform written to buffQ2[i] instead of buffQ1[i])
StepINTTIntoDst(sw, c) ==
  IF c.i >= BuffLen
    THEN [sw |-> sw, c |-> Panicked(c)]
    ELSE [sw |-> [sw EXCEPT ![BuffDst(c.dir)][c.i + 1] =
                    INTTLazy(SrcParams(sw, c.dir), c.levelQ1,
                             c.ctIn.Value[c.i + 1], @, c.id)],
          c  |-> [c EXCEPT !.pc = "modup", !.wrote = TRUE,
                           !.writes = @ \cup
                              {PolyId(BuffDst(c.dir), c.inst, c.i + 1)},
                           !.used = @ \cup {BuffDst(c.dir)}]]

\* (the inverse transform done in place, on the input's own polynomial)
StepINTTInPlace(sw, c) ==
  IF c.i >= BuffLen
    THEN [sw |-> sw, c |-> Panicked(c)]
    ELSE [sw |-> sw,
          c  |-> [c EXCEPT !.pc = "modup", !.wrote = TRUE,
                           !.ctIn.Value[c.i + 1] =
                              INTTLazy(SrcParams(sw, c.dir), c.levelQ1,
                                       @, @, c.id),
                           !.writes = @ \cup {PolyId("ctIn", c.id, c.i + 1)}]]

\* ringQ1.INTTLazy(ctIn.Value[i], buffQ1[i])
StepINTT(sw, c) ==
  IF c.i >= BuffLen
    THEN [sw |-> sw, c |-> Panicked(c)]
    ELSE [sw |-> [sw EXCEPT ![BuffSrc(c.dir)][c.i + 1] =
                    INTTLazy(SrcParams(sw, c.dir), c.levelQ1,
                             c.ctIn.Value[c.i + 1], @, c.id)],
          c  |-> [c EXCEPT !.pc = "modup", !.wrote = TRUE,
                           !.writes = @ \cup
                              {PolyId(BuffSrc(c.dir), c.inst, c.i + 1)},
                           !.used = @ \cup {BuffSrc(c.dir)}]]

\* rs.BasisExtender.ModUpQtoP / ModUpPtoQ(levelQ1, levelQ2, buffQ1[i], buffQ2[i])
StepModUp(sw, c) ==
  LET src == sw[BuffSrc(c.dir)][c.i + 1]
  IN [sw |-> [sw EXCEPT ![BuffDst(c.dir)][c.i + 1] =
                ModUp(DstParams(sw, c.dir), c.levelQ1, c.levelQ2,
                      IF SameRingDegree(sw) THEN src ELSE Garbled(src),
                      @, c.id)],
      c  |-> [c EXCEPT !.pc = "ntt",
                       !.reads = @ \cup ReadBy(src, c.levelQ1),
                       !.writes = @ \cup
                          {PolyId(BuffDst(c.dir), c.inst, c.i + 1)},
                       !.used = @ \cup {BuffSrc(c.dir), BuffDst(c.dir)}]]

\* ringQ2.NTT / NTTLazy(buffQ2[i], ctOut.Value[i]), and the loop's increment.
StepNTT(sw, c) ==
  LET src == sw[BuffDst(c.dir)][c.i + 1]
  IN IF c.levelQ2 + 1 > Len(c.ctOut.Value[c.i + 1])
       THEN [sw |-> sw,
             c  |-> [Panicked(c) EXCEPT
                       !.reads = @ \cup ReadBy(src, c.levelQ2),
                       !.used = @ \cup {BuffDst(c.dir)}]]
       ELSE [sw |-> sw,
             c  |-> [c EXCEPT
                       !.ctOut.Value[c.i + 1] =
                          NTT(DstParams(sw, c.dir), c.levelQ2, src, @,
                              ~c.dir, c.id),
                       !.reads = @ \cup ReadBy(src, c.levelQ2),
                       !.writes = @ \cup {c.outPolys[c.i + 1]},
                       !.used = @ \cup {BuffDst(c.dir)},
                       !.i = @ + 1,
                       !.pc = IF c.i + 1 <= Degree(c.ctIn) THEN "intt" ELSE "done",
                       !.outcome = IF c.i + 1 <= Degree(c.ctIn)
                                     THEN "run" ELSE "ok"]]

StepCall(sw, c) ==
  CASE c.pc = "intt"  -> StepINTT(sw, c)
    [] c.pc = "modup" -> StepModUp(sw, c)
    [] c.pc = "ntt"   -> StepNTT(sw, c)

\* What one step of a call can do.  On a switcher whose chains have different
\* ring degrees the basis extension (and, for dir = TRUE, the transform into
\* ctOut, which is allocated from params1) works on polynomials of two
\* lengths: the step either panics on an index out of range or goes on.
StepResults(sw, c) ==
  {StepCall(sw, c)} \cup
  IF ~SameRingDegree(sw) /\ (c.pc = "modup" \/ (c.pc = "ntt" /\ c.dir))
    THEN {[sw |-> sw, c |-> Panicked(c)]}
    ELSE {}

\* A whole SwitchNew call, from its entry to its return or panic.
RECURSIVE RunCall(_, _)
RunCall(sw, c) ==
  IF c.pc = "done"
    THEN [sw |-> sw, c |-> c]
    ELSE LET r == StepCall(sw, c) IN RunCall(r.sw, r.c)

\* (scratch buffers that belong to the package, not to the receiver)
BuffOwnerShared(c) == 1

\* The switcher whose BuffQ1 and BuffQ2 a call uses: its receiver rs.
BuffOwner(c) == c.inst

\* The ciphertexts callers hand to SwitchNew.
Metas ==
  {[IsNTT |-> TRUE, IsBatched |-> TRUE, LogDimensions |-> 12, Scale |-> 40],
   [IsNTT |-> FALSE, IsBatched |-> FALSE, LogDimensions |-> 11, Scale |-> 80]}

Degrees == {1, 2}

FreshCt(p, level, degree, meta) ==
  [Value         |-> [k \in 1..(degree + 1) |->
                        [j \in 1..(level + 1) |->
                           [q    |-> p.Q[j],
                            dom  |-> IF meta.IsNTT THEN "ntt" ELSE "coef",
                            lazy |-> FALSE,
                            by   |-> 0]]],
   Scale         |-> meta.Scale,
   IsNTT         |-> meta.IsNTT,
   IsBatched     |-> meta.IsBatched,
   LogDimensions |-> meta.LogDimensions]

\* Degree-1 ciphertexts of the source chain at every level with either
\* metadata, and ciphertexts of higher degree at the top level.
FreshInputs(sw, dir) ==
  LET p == SrcParams(sw, dir)
  IN {FreshCt(p, l, 1, m) : l \in 0..MaxLevelQ(p), m \in Metas}
     \cup
     {FreshCt(p, MaxLevelQ(p), d, m) :
        d \in Degrees \ {1}, m \in {n \in Metas : n.IsNTT}}

LastOk == hist # <<>> /\ hist[Len(hist)].outcome = "ok"
              /\ hist[Len(hist)].op = "SwitchNew"


----------------------------------------------------------------------------
(* SwitchSecretKey                                                         *)

LevelQ(sk) == Len(sk.Q) - 1

\* A secret key of parameters p, its Q part cut to a level.
KeyOf(p, level) ==
  [Q |-> [j \in 1..(level + 1) |->
            [q |-> p.Q[j], dom |-> "ntt", lazy |-> FALSE, by |-> 0]],
   P |-> [j \in 1..Len(p.P) |->
            [q |-> p.P[j], dom |-> "ntt", lazy |-> FALSE, by |-> 0]]]

\* rlwe.NewSecretKey(params)
NewSecretKey(p) == [Q |-> NewPoly(MaxLevelQ(p)), P |-> NewPoly(Len(p.P) - 1)]

\* The branch SwitchSecretKey takes: 1 (skIn is taken for a key of params1),
\* 2 (for a key of params2) or 0 (panic).
KeyBranch(sw, skIn) ==
  IF LevelQ(skIn) = MaxLevelQ(sw.params1) THEN 1
  ELSE IF LevelQ(skIn) = MaxLevelQ(sw.params2) THEN 2
  ELSE 0

KeySrcParams(sw, br) == IF br = 1 THEN sw.params1 ELSE sw.params2

KeyDstParams(sw, br) == IF br = 1 THEN sw.params2 ELSE sw.params1

KeyBuff(br) == IF br = 1 THEN "BuffQ1" ELSE "BuffQ2"

\* The ring the P part of skOut is extended to.
KeyAuxPrimes(sw, br) == sw.params1.P

\* rlwe.ExtendBasisSmallNormAndCenterNTTMontgomery(rQ, rP, polQ, buff, polP):
\* row 0 of polQ goes through buff (INTT at level 0) and every row of rP is
\* written to polP.  What it leaves in buff:
ExtendBuff(pQ, polQ, buff, id) ==
  [buff EXCEPT ![1] = [q |-> pQ.Q[1], dom |-> InvDom(polQ[1].dom),
                       lazy |-> FALSE, by |-> id]]

\* and what it writes to polP, for the primes of rP (fits: polP is long enough).
ExtendFits(primes, polP) == Len(primes) <= Len(polP)

ExtendPoly(primes, polQ, polP, id) ==
  [j \in 1..Len(polP) |->
     IF j <= Len(primes)
       THEN [q |-> primes[j], dom |-> FwdDom(InvDom(polQ[1].dom)),
             lazy |-> FALSE, by |-> id]
       ELSE polP[j]]

SwitchSecretKey(sw, skIn, id) ==
  LET br    == KeyBranch(sw, skIn)
      src   == KeySrcParams(sw, br)
      dst   == KeyDstParams(sw, br)
      aux   == KeyAuxPrimes(sw, br)
      sk0   == NewSecretKey(dst)
      fitsQ == ExtendFits(dst.Q, sk0.Q)
      fitsP == ExtendFits(aux, sk0.P)
      sw1   == [sw EXCEPT ![KeyBuff(br)][1] = ExtendBuff(src, skIn.Q, @, id)]
      polQ  == IF SameRingDegree(sw) THEN skIn.Q ELSE Garbled(skIn.Q)
      skOut == [Q |-> ExtendPoly(dst.Q, polQ, sk0.Q, id),
                P |-> ExtendPoly(aux, polQ, sk0.P, id)]
  IN IF br = 0
       THEN [sw |-> sw, outcome |-> "panic", skOut |-> NoCt, branch |-> br]
     ELSE IF ~(fitsQ /\ fitsP)
       THEN [sw |-> sw1, outcome |-> "panic", skOut |-> NoCt, branch |-> br]
     ELSE [sw |-> sw1, outcome |-> "ok", skOut |-> skOut, branch |-> br]

\* What a SwitchSecretKey call can do.  On a switcher whose chains have
\* different ring degrees the extension writes a polynomial of the other
\* length: the call either panics on an index out of range or returns.
KeyResults(sw, skIn, id) ==
  LET r == SwitchSecretKey(sw, skIn, id)
  IN {r} \cup
     IF ~SameRingDegree(sw) /\ r.branch # 0
       THEN {[r EXCEPT !.outcome = "panic", !.skOut = NoCt]}
       ELSE {}

\* The keys callers hand to SwitchSecretKey: a key of either chain, whole or
\* cut to a lower level.
KeyInputs(sw) ==
  {[chain |-> 1, sk |-> KeyOf(sw.params1, l)] : l \in 0..MaxLevelQ(sw.params1)}
  \cup
  {[chain |-> 2, sk |-> KeyOf(sw.params2, l)] : l \in 0..MaxLevelQ(sw.params2)}

----------------------------------------------------------------------------
(* Actions                                                                 *)

New(inst, p1, p2) ==
  /\ ~ms[inst].exists
  /\ ms' = [ms EXCEPT ![inst] = NewModulusSwitcher(p1, p2)]
  /\ UNCHANGED <<calls, nextId, hist, main>>

Enter(slot, inst, ctIn, dir, chained) ==
  /\ calls[slot].pc = "idle"
  /\ ms[inst].exists
  /\ nextId <= MaxCalls
  /\ calls' = [calls EXCEPT ![slot] =
                 EnterCall(ms[inst], nextId, inst, ctIn, dir, chained)]
  /\ nextId' = nextId + 1
  /\ UNCHANGED <<ms, hist, main>>

EnterFresh(slot, inst) ==
  /\ ms[inst].exists
  /\ \E dir \in BOOLEAN :
       \E ctIn \in FreshInputs(ms[inst], dir) :
         Enter(slot, inst, ctIn, dir, FALSE)

EnterChained(slot, inst) ==
  /\ ms[inst].exists
  /\ LastOk
  /\ \E dir \in BOOLEAN : Enter(slot, inst, hist[Len(hist)].ctOut, dir, TRUE)

Step(slot) ==
  /\ calls[slot].pc \in {"intt", "modup", "ntt"}
  /\ LET o == BuffOwner(calls[slot])
     IN \E r \in StepResults(ms[o], calls[slot]) :
          /\ ms' = [ms EXCEPT ![o] = r.sw]
          /\ calls' = [calls EXCEPT ![slot] = r.c]
  /\ UNCHANGED <<nextId, hist, main>>

Return(slot) ==
  /\ calls[slot].pc = "done"
  /\ hist' = Append(hist, calls[slot])
  /\ calls' = [calls EXCEPT ![slot] = Idle]
  /\ UNCHANGED <<ms, nextId, main>>

KeyRecord(r, id, inst, chain, skIn) ==
  [op |-> "SwitchSecretKey", id |-> id, inst |-> inst, chain |-> chain,
   skIn |-> skIn, out |-> r.skOut, outcome |-> r.outcome, branch |-> r.branch]

SwitchKey(inst) ==
  /\ ms[inst].exists
  /\ \A s \in DOMAIN calls : calls[s].pc = "idle"
  /\ nextId <= MaxCalls
  /\ \E k \in KeyInputs(ms[inst]) :
       \E r \in KeyResults(ms[inst], k.sk, nextId) :
         /\ ms' = [ms EXCEPT ![inst] = r.sw]
         /\ hist' = Append(hist, KeyRecord(r, nextId, inst, k.chain, k.sk))
  /\ nextId' = nextId + 1
  /\ UNCHANGED <<calls, main>>

vars == <<ms, calls, nextId, hist, main>>

Slots == {1, 2}

Insts == {1, 2}

MainIdle == [status |-> "idle"]

Init ==
  /\ ms = [i \in Insts |-> NoMS]
  /\ calls = [s \in Slots |-> Idle]
  /\ nextId = 1
  /\ hist = <<>>
  /\ main = MainIdle

\* One caller, one switcher: calls follow one another.
Next ==
  \/ \E cfg \in Configs :
       New(1, NewParametersFromLiteral(cfg[1]), NewParametersFromLiteral(cfg[2]))
  \/ EnterFresh(1, 1)
  \/ EnterChained(1, 1)
  \/ Step(1)
  \/ Return(1)
  \/ SwitchKey(1)

Spec == Init /\ [][Next]_vars

----------------------------------------------------------------------------
(* Two callers: SwitchNew calls interleaved on one switcher or on two      *)

RaceInputs(sw, dir) ==
  {FreshCt(SrcParams(sw, dir), l, 1, m) :
     l \in 0..MaxLevelQ(SrcParams(sw, dir)),
     m \in {n \in Metas : n.IsNTT}}

InitRace ==
  /\ ms = [i \in Insts |->
             NewModulusSwitcher(NewParametersFromLiteral(LitA),
                                NewParametersFromLiteral(LitB))]
  /\ calls = [s \in Slots |-> Idle]
  /\ nextId = 1
  /\ hist = <<>>
  /\ main = MainIdle

EnterRace(slot, inst) ==
  \E dir \in BOOLEAN :
    \E ctIn \in RaceInputs(ms[inst], dir) :
      Enter(slot, inst, ctIn, dir, FALSE)

\* Caller 1 uses switcher 1; caller 2 uses switcher 1 too, or its own.
NextRace ==
  \E slot \in Slots :
    \/ \E inst \in {i \in Insts : i <= slot} : EnterRace(slot, inst)
    \/ Step(slot)
    \/ Return(slot)

SpecRace == InitRace /\ [][NextRace]_vars

----------------------------------------------------------------------------
(* The example program: set-up, the bootstrap on chain 1 alone, then the   *)
(* cross-chain bootstrap pipeline                                          *)

\* Levels: []int{1, 1, 1} of SlotsToCoeffsParameters; LevelStart is its length.
SlotsToCoeffsLevels == 3

\* Levels: []int{1, 1, 1, 1} of CoeffsToSlotsParameters.
CoeffsToSlotsLevels == 4

\* Mod1Degree 30 (depth 5) and DoubleAngle 3 (depth 3).
EvalModDepth == 5 + 3

\* LogN := 16, and LogN -= 3 under -short.
MainLogN(short) == IF short THEN 16 - 3 ELSE 16

MainParams(logQ, short) ==
  NewParametersFromLiteral(Literal(MainLogN(short), logQ, ExampleLogP, 40))

\* params (from LogQ) and params2 (from LogQ2) of main.
ParamsOf(chain, short) ==
  MainParams(IF chain = "1" THEN ExampleLogQ ELSE ExampleLogQ2, short)

\* What an evaluator stage returns: a degree-1 ciphertext of its chain.
StageCt(p, level, logN) ==
  FreshCt(p, level, 1,
          [IsNTT |-> TRUE, IsBatched |-> TRUE, LogDimensions |-> logN - 1,
           Scale |-> p.scale])

\* The calls of main before its bootstraps, each with the chain it is for.
SetupOrder ==
  << [stage |-> "NewParametersFromLiteral", chain |-> "1"],
     [stage |-> "NewParametersFromLiteral", chain |-> "2"],
     [stage |-> "GenEvaluationKeys",        chain |-> "1"],
     [stage |-> "NewModulusSwitcher",       chain |-> "1to2"],
     [stage |-> "SwitchSecretKey",          chain |-> "1to2"],
     [stage |-> "GenEvaluationKeys",        chain |-> "2"],
     [stage |-> "NewEvaluator",             chain |-> "1"],
     [stage |-> "NewEvaluator",             chain |-> "2"],
     [stage |-> "Encode",                   chain |-> "1"],
     [stage |-> "EncryptNew",               chain |-> "1"] >>

\* The bootstrap on chain 1 alone ("Original BTS"): eight stages of eval.
ReferenceOrder ==
  << [stage |-> "SlotsToCoeffs", chain |-> "1"],
     [stage |-> "ScaleDown",     chain |-> "1"],
     [stage |-> "ModUp",         chain |-> "1"],
     [stage |-> "CoeffsToSlots", chain |-> "1"],
     [stage |-> "EvalModReal",   chain |-> "1"],
     [stage |-> "EvalModImag",   chain |-> "1"],
     [stage |-> "Mul",           chain |-> "1"],
     [stage |-> "Add",           chain |-> "1"] >>

\* printDebug1(params, ciphertext_out1, ...) between the two bootstraps: its
\* one call with an error check is encoder.Decode.
DebugOrder ==
  << [stage |-> "Decode", chain |-> "1"] >>

\* The order of the stages of the cross-chain pipeline, each with the chain
\* of its evaluator (eval: 1, eval2: 2) or, for a switch, its direction.
StageOrder ==
  << [stage |-> "SlotsToCoeffs", chain |-> "1"],
     [stage |-> "SwitchNew",     chain |-> "1to2"],
     [stage |-> "ScaleDown",     chain |-> "2"],
     [stage |-> "ModUp",         chain |-> "2"],
     [stage |-> "CoeffsToSlots", chain |-> "2"],
     [stage |-> "EvalModReal",   chain |-> "2"],
     [stage |-> "EvalModImag",   chain |-> "2"],
     [stage |-> "Mul",           chain |-> "2"],
     [stage |-> "Add",           chain |-> "2"],
     [stage |-> "SwitchNew",     chain |-> "2to1"] >>

\* The calls of main after the pipeline: MulRelinNew on ciphertext21, then
\* printDebug2 on ciphertext21 and on ciphertext21squared. printDebug2 calls
\* eval.ScaleDown(ciphertext), which works on its argument in place and whose
\* results, the error included, are discarded, and then encoder.Decode, whose
\* error is checked.
TailOrder ==
  << [stage |-> "MulRelinNew",        chain |-> "1"],
     [stage |-> "ScaleDownDiscarded", chain |-> "1"],
     [stage |-> "Decode",             chain |-> "1"],
     [stage |-> "ScaleDownDiscarded", chain |-> "1"],
     [stage |-> "Decode",             chain |-> "1"] >>

\* main, call by call.
Program ==
  SetupOrder \o ReferenceOrder \o DebugOrder \o StageOrder \o TailOrder

ReferenceStart == Len(SetupOrder)

PipelineStart == Len(SetupOrder) + Len(ReferenceOrder) + Len(DebugOrder)

InReference(pc) ==
  pc > ReferenceStart /\ pc <= ReferenceStart + Len(ReferenceOrder)

InPipeline(pc) ==
  pc > PipelineStart /\ pc <= PipelineStart + Len(StageOrder)

TailStart == PipelineStart + Len(StageOrder)

\* The first printDebug2 is handed ciphertext21, the second
\* ciphertext21squared.
OnSquared(pc) == pc > TailStart + 3

\* The calls into the ModulusSwitcher: they return no error, they panic.
SwitcherCalls == {"NewModulusSwitcher", "SwitchSecretKey", "SwitchNew"}

\* flag.Parse() and the choice of LogN.
MainStart ==
  /\ main.status = "idle"
  /\ \E short \in BOOLEAN :
       main' = [status  |-> "running",
                pc      |-> 1,
                phase   |-> "call",
                err     |-> FALSE,
                short   |-> short,
                ct      |-> NoCt,
                ref     |-> NoCt,
                sq      |-> NoCt,
                trace   |-> <<>>,
                extFail |-> FALSE]
  /\ UNCHANGED <<ms, calls, nextId, hist>>

\* The level an evaluator stage leaves its ciphertext at.
StageLevel(stage, p, level) ==
  CASE stage = "SlotsToCoeffs" -> level - SlotsToCoeffsLevels
    [] stage = "ScaleDown"     -> 0
    [] stage = "ModUp"         -> MaxLevelQ(p)
    [] stage = "CoeffsToSlots" -> level - CoeffsToSlotsLevels
    [] stage = "EvalModReal"   -> level - EvalModDepth
    [] stage = "EvalModImag"   -> level
    [] stage = "Mul"           -> level
    [] stage = "Add"           -> level

\* The pipeline's trace with the stage at main.pc added.
Traced(ok) ==
  IF InPipeline(main.pc)
    THEN Append(main.trace, [stage |-> Program[main.pc].stage,
                             chain |-> Program[main.pc].chain, ok |-> ok])
    ELSE main.trace

\* main after the call at main.pc: at the next call, or at its end.
Advanced(m) ==
  [m EXCEPT !.status = IF m.pc = Len(Program) THEN "done" ELSE "running",
            !.pc = @ + 1, !.phase = "call", !.err = FALSE]

\* The ciphertext a bootstrap stage works on: the reference bootstrap starts
\* from ciphertext and goes on with ciphertext_out1.
StageInput ==
  IF InReference(main.pc) /\ main.pc > ReferenceStart + 1
    THEN main.ref ELSE main.ct

\* eval.ScaleDown in printDebug2 drops its argument to level 0 in place,
\* before the step of it that can fail.
ScaledDown(m) ==
  LET p == ParamsOf("1", m.short)
  IN IF OnSquared(m.pc)
       THEN [m EXCEPT !.sq = StageCt(p, 0, MainLogN(m.short))]
       ELSE [m EXCEPT !.ct = StageCt(p, 0, MainLogN(m.short))]

\* A call of the library returns without error (err == nil).
CallReturns ==
  /\ main.status = "running" /\ main.phase = "call"
  /\ Program[main.pc].stage \notin SwitcherCalls
  /\ LET st == Program[main.pc]
         p  == ParamsOf(st.chain, main.short)
     IN IF main.pc = ReferenceStart
          THEN main' = [main EXCEPT !.phase = "check", !.err = FALSE,
                          !.ct = StageCt(p, SlotsToCoeffsLevels,
                                         MainLogN(main.short))]
        ELSE IF st.stage = "MulRelinNew"
          THEN main' = [main EXCEPT
                          !.phase = "check", !.err = FALSE,
                          !.sq = [StageCt(p, Level(main.ct),
                                          MainLogN(main.short))
                                    EXCEPT !.Scale = 2 * main.ct.Scale]]
        ELSE IF st.stage = "ScaleDownDiscarded"
          THEN main' = [ScaledDown(main) EXCEPT !.phase = "check",
                                                !.err = FALSE]
        ELSE IF ~InReference(main.pc) /\ ~InPipeline(main.pc)
          THEN main' = [main EXCEPT !.phase = "check", !.err = FALSE]
        ELSE LET l  == StageLevel(st.stage, p, Level(StageInput))
                 ct == StageCt(p, l, MainLogN(main.short))
             IN /\ l >= 0
                /\ main' = [main EXCEPT
                              !.phase = "check", !.err = FALSE,
                              !.ref = IF InReference(main.pc) THEN ct ELSE @,
                              !.ct = IF InPipeline(main.pc) THEN ct ELSE @,
                              !.trace = Traced(TRUE)]
  /\ UNCHANGED <<ms, calls, nextId, hist>>

\* A call of the library returns an error.
CallReturnsError ==
  /\ main.status = "running" /\ main.phase = "call"
  /\ Program[main.pc].stage \notin SwitcherCalls
  /\ main' = [(IF Program[main.pc].stage = "ScaleDownDiscarded"
                 THEN ScaledDown(main) ELSE main)
                EXCEPT !.phase = "check", !.err = TRUE,
                       !.trace = Traced(FALSE), !.extFail = TRUE]
  /\ UNCHANGED <<ms, calls, nextId, hist>>

\* if err != nil { panic(err) }; the error of the ScaleDown in printDebug2
\* is not looked at.
CheckErr ==
  /\ main.status = "running" /\ main.phase = "check"
  /\ main' = IF main.err /\ Program[main.pc].stage # "ScaleDownDiscarded"
               THEN [main EXCEPT !.status = "aborted"]
               ELSE Advanced(main)
  /\ UNCHANGED <<ms, calls, nextId, hist>>

\* ms := hefloat.NewModulusSwitcher(params, params2)
MainNewSwitcher ==
  /\ main.status = "running" /\ main.phase = "call"
  /\ Program[main.pc].stage = "NewModulusSwitcher"
  /\ ms' = [ms EXCEPT ![1] = NewModulusSwitcher(ParamsOf("1", main.short),
                                                ParamsOf("2", main.short))]
  /\ main' = Advanced(main)
  /\ UNCHANGED <<calls, nextId, hist>>

\* sk2 := ms.SwitchSecretKey(kgen, kgen2, sk)
MainSwitchKey ==
  /\ main.status = "running" /\ main.phase = "call"
  /\ Program[main.pc].stage = "SwitchSecretKey"
  /\ LET sk == KeyOf(ms[1].params1, MaxLevelQ(ms[1].params1))
         r  == SwitchSecretKey(ms[1], sk, nextId)
     IN /\ ms' = [ms EXCEPT ![1] = r.sw]
        /\ hist' = Append(hist, KeyRecord(r, nextId, 1, 1, sk))
        /\ main' = IF r.outcome = "ok"
                     THEN Advanced(main)
                     ELSE [main EXCEPT !.status = "aborted"]
  /\ nextId' = nextId + 1
  /\ UNCHANGED calls

\* ms.SwitchNew(ciphertext, true) and ms.SwitchNew(ciphertext2, false).
MainSwitch ==
  /\ main.status = "running" /\ main.phase = "call"
  /\ Program[main.pc].stage = "SwitchNew"
  /\ LET dir == Program[main.pc].chain = "1to2"
         r   == RunCall(ms[1], EnterCall(ms[1], nextId, 1, main.ct, dir, FALSE))
     IN /\ ms' = [ms EXCEPT ![1] = r.sw]
        /\ hist' = Append(hist, r.c)
        /\ main' = IF r.c.outcome = "ok"
                     THEN [Advanced(main) EXCEPT !.ct = r.c.ctOut,
                                                 !.trace = Traced(TRUE)]
                     ELSE [main EXCEPT !.status = "aborted",
                                       !.trace = Traced(FALSE)]
  /\ nextId' = nextId + 1
  /\ UNCHANGED calls

NextMain ==
  \/ MainStart
  \/ CallReturns
  \/ CallReturnsError
  \/ CheckErr
  \/ MainNewSwitcher
  \/ MainSwitchKey
  \/ MainSwitch

SpecMain == Init /\ [][NextMain]_vars

----------------------------------------------------------------------------
(* Properties of SwitchNew and SwitchSecretKey                             *)

Chain(sw, n) == IF n = 1 THEN sw.params1 ELSE sw.params2

SourceChain(sw, dir) == Chain(sw, IF dir THEN 1 ELSE 2)

DestChain(sw, dir) == Chain(sw, IF dir THEN 2 ELSE 1)

\* l - maxLevel(sourceChain) + maxLevel(destChain)
ExpectedLevel(sw, dir, l) ==
  l - MaxLevelQ(SourceChain(sw, dir)) + MaxLevelQ(DestChain(sw, dir))

\* ct has exactly level + 1 rows per component, row j a residue of p's j-th prime.
InChainAt(ct, p, level) ==
  \A k \in DOMAIN ct.Value :
    /\ Len(ct.Value[k]) = level + 1
    /\ \A j \in 1..(level + 1) : j <= Len(p.Q) /\ ct.Value[k][j].q = p.Q[j]

SameMeta(a, b) ==
  /\ a.IsNTT = b.IsNTT
  /\ a.IsBatched = b.IsBatched
  /\ a.LogDimensions = b.LogDimensions

Finished == {hist[k] : k \in DOMAIN hist}

FinishedSwitch == {h \in Finished : h.op = "SwitchNew"}

FinishedKey == {h \in Finished : h.op = "SwitchSecretKey"}

Running == {calls[s] : s \in {t \in DOMAIN calls : calls[t].pc # "idle"}}

\* Every row of the scratch buffers of switcher sw.
BuffRows(sw) ==
  UNION {Range(sw.BuffQ1[k]) \cup Range(sw.BuffQ2[k]) : k \in 1..BuffLen}

\* C1: a SwitchNew that returns, on a ciphertext of the source chain at level
\* l, returns a ciphertext of the destination chain at level
\* l - maxLevel(source) + maxLevel(dest) (stated for switchers whose chains
\* have one ring degree).
C1_OutputInDestChainAtDestLevel ==
  \A h \in FinishedSwitch :
    (h.outcome = "ok" /\ ~h.chained /\ SameRingDegree(ms[h.inst])) =>
      InChainAt(h.ctOut, DestChain(ms[h.inst], h.dir),
                ExpectedLevel(ms[h.inst], h.dir, Level(h.ctIn)))

\* C2: a SwitchNew whose destination level is negative panics, returns
\* nothing and has written no row of a scratch buffer.
C2_NegativeLevelFailsFirst ==
  \A c \in FinishedSwitch \cup Running :
    ExpectedLevel(ms[c.inst], c.dir, Level(c.ctIn)) < 0 =>
      /\ c.pc = "done"
      /\ c.outcome = "panic"
      /\ c.ctOut = NoCt
      /\ \A r \in BuffRows(ms[c.inst]) : r.by # c.id

C2_Witness ==
  \E c \in FinishedSwitch :
    /\ ExpectedLevel(ms[c.inst], c.dir, Level(c.ctIn)) < 0
    /\ c.outcome = "panic"
    /\ c.id > 1

\* C4: every scratch-buffer row a SwitchNew call reads was written by that
\* same call, whatever calls came before it on the switcher.
C4_BufferIsolation ==
  \A c \in FinishedSwitch \cup Running : c.reads \subseteq {c.id}

C4_Witness ==
  /\ Len(hist) = 2
  /\ hist[1].op = "SwitchNew" /\ hist[2].op = "SwitchNew"
  /\ hist[1].outcome = "ok" /\ hist[2].outcome = "ok"
  /\ hist[1].dir = hist[2].dir
  /\ hist[1].levelQ1 > hist[2].levelQ1
  /\ hist[2].reads = {2}
  /\ \E r \in BuffRows(ms[1]) : r.by = 1

\* C5: switching a chain1 ciphertext at level l to chain2 (valid destination
\* level) and back gives a chain1 ciphertext at level l, of the same degree
\* and metadata (stated for switchers whose chains have one ring degree).
C5_RoundTrip ==
  \A k \in 1..(Len(hist) - 1) :
    LET a == hist[k]
        b == hist[k + 1]
    IN (/\ a.op = "SwitchNew" /\ b.op = "SwitchNew"
        /\ a.dir /\ ~a.chained /\ a.outcome = "ok"
        /\ ~b.dir /\ b.chained
        /\ Degree(a.ctIn) < BuffLen
        /\ SameRingDegree(ms[a.inst])) =>
         /\ b.outcome = "ok"
         /\ InChainAt(b.ctOut, ms[b.inst].params1, Level(a.ctIn))
         /\ Degree(b.ctOut) = Degree(a.ctIn)
         /\ SameMeta(b.ctOut, a.ctIn)

\* C6: SwitchSecretKey panics exactly when the key's level is neither
\* chain's maximum level, and then returns no key (stated for switchers
\* whose chains have one ring degree).
C6_KeyPanicIffNoLevelMatch ==
  \A h \in {k \in FinishedKey : SameRingDegree(ms[k.inst])} :
    /\ (h.outcome = "panic") <=>
         (/\ LevelQ(h.skIn) # MaxLevelQ(ms[h.inst].params1)
          /\ LevelQ(h.skIn) # MaxLevelQ(ms[h.inst].params2))
    /\ h.outcome = "panic" => h.out = NoCt

PolyOver(pol, primes, id) ==
  /\ Len(pol) = Len(primes)
  /\ \A j \in 1..Len(pol) : pol[j].q = primes[j] /\ pol[j].by = id

\* C7: for a key of chain n at that chain's maximum level, on a switcher
\* whose chains share ring degree and P, SwitchSecretKey returns a key whose
\* Q part is over the other chain's primes and whose P part is over P.
C7_KeyOverOtherChain ==
  \A h \in FinishedKey :
    LET sw == ms[h.inst]
    IN (/\ LevelQ(h.skIn) = MaxLevelQ(Chain(sw, h.chain))
        /\ sw.params1.P = sw.params2.P) =>
         /\ h.outcome = "ok"
         /\ PolyOver(h.out.Q, Chain(sw, 3 - h.chain).Q, h.id)
         /\ PolyOver(h.out.P, sw.params1.P, h.id)

\* C8: every ModulusSwitcher has chains of equal ring degree and identical P.
C8_ValidatedAtConstruction ==
  \A i \in DOMAIN ms :
    ms[i].exists =>
      /\ ms[i].params1.N = ms[i].params2.N
      /\ ms[i].params1.P = ms[i].params2.P

\* C9: the two chains of a ModulusSwitcher never share a prime; in
\* particular the chains of the example program are disjoint.
C9_ChainsDisjoint ==
  \A i \in DOMAIN ms :
    ms[i].exists =>
      Range(ms[i].params1.Q) \cap Range(ms[i].params2.Q) = {}

\* C11: the ciphertext a SwitchNew returns carries the destination chain's
\* default scale (chain2's for dir = TRUE, chain1's for dir = FALSE),
\* whatever the scale of the input.
C11_OutputScaleOfDestChain ==
  \A h \in FinishedSwitch :
    h.outcome = "ok" => h.ctOut.Scale = DestChain(ms[h.inst], h.dir).scale

\* Both directions returned, on chains of different default scales, for
\* inputs whose scale is neither chain's.
C11_Witness ==
  /\ Len(hist) = 2
  /\ \A k \in 1..2 :
       /\ hist[k].op = "SwitchNew" /\ hist[k].outcome = "ok"
       /\ ~hist[k].chained
       /\ hist[k].ctIn.Scale \notin {ms[1].params1.scale, ms[1].params2.scale}
  /\ hist[1].dir /\ ~hist[2].dir
  /\ ms[1].params1.scale # ms[1].params2.scale

\* C12: the ciphertext a SwitchNew returns has the IsNTT, IsBatched and
\* LogDimensions of its input, in both directions.
C12_MetadataCopied ==
  \A h \in FinishedSwitch \cup Running :
    h.ctOut # NoCt => SameMeta(h.ctOut, h.ctIn)

\* Both directions returned, one for a batched input in the evaluation
\* domain, one for an unbatched input flagged as coefficient domain.
C12_Witness ==
  /\ Len(hist) = 2
  /\ \A k \in 1..2 :
       /\ hist[k].op = "SwitchNew" /\ hist[k].outcome = "ok"
       /\ ~hist[k].chained
  /\ hist[1].dir /\ ~hist[2].dir
  /\ hist[1].ctIn.IsNTT /\ hist[1].ctIn.IsBatched
  /\ ~hist[2].ctIn.IsNTT /\ ~hist[2].ctIn.IsBatched
  /\ hist[1].ctIn.LogDimensions # hist[2].ctIn.LogDimensions

\* The polynomials of the scratch buffers of switcher inst.
BufferPolys(inst) ==
  {PolyId(b, inst, k) : b \in {"BuffQ1", "BuffQ2"}, k \in 1..BuffLen}

\* The polynomials of the input of call c: the caller's own, or those of the
\* previous call's output when that output is handed on.
InPolys(c) ==
  {PolyId(IF c.chained THEN "ctOut" ELSE "ctIn",
          IF c.chained THEN c.id - 1 ELSE c.id, k) :
     k \in 1..Len(c.ctIn.Value)}

\* C13: a SwitchNew call leaves its input ciphertext and the switcher's two
\* parameter sets as they were at entry, writes only polynomials of the
\* scratch buffers and of its own output, and returns a ciphertext whose
\* polynomials are neither the input's, nor a buffer's, nor another call's.
C13_OnlyBuffersMutated ==
  \A c \in FinishedSwitch \cup Running :
    /\ c.ctIn = c.pre.ctIn
    /\ ms[c.inst].params1 = c.pre.params1
    /\ ms[c.inst].params2 = c.pre.params2
    /\ c.writes \subseteq BufferPolys(c.inst) \cup Range(c.outPolys)
    /\ c.outcome = "ok" =>
         /\ Len(c.outPolys) = Len(c.ctOut.Value)
         /\ Range(c.outPolys) \cap InPolys(c) = {}
         /\ \A i \in DOMAIN ms : Range(c.outPolys) \cap BufferPolys(i) = {}
         /\ \A d \in FinishedSwitch \ {c} :
              Range(c.outPolys) \cap Range(d.outPolys) = {}

\* A call returned for the output of an earlier call, having written both
\* scratch buffers and its output.
C13_Witness ==
  /\ Len(hist) = 2
  /\ hist[1].op = "SwitchNew" /\ hist[1].outcome = "ok"
  /\ hist[2].op = "SwitchNew" /\ hist[2].outcome = "ok" /\ hist[2].chained
  /\ \E w \in hist[2].writes : w.obj = "BuffQ1"
  /\ \E w \in hist[2].writes : w.obj = "BuffQ2"
  /\ Range(hist[2].outPolys) \subseteq hist[2].writes
  /\ InPolys(hist[2]) = Range(hist[1].outPolys)

\* C16 as claimed: the buffers a dir = TRUE call reads or writes and those a
\* dir = FALSE call on the same switcher reads or writes are disjoint.
C16_BuffersPerDirection ==
  \A c \in FinishedSwitch \cup Running :
    \A d \in FinishedSwitch \cup Running :
      (c.inst = d.inst /\ c.dir /\ ~d.dir) => c.used \cap d.used = {}

\* C16 as amended: the buffers are one per chain; a call in either direction
\* first uses the buffer of its source chain (BuffQ1 for dir = TRUE, BuffQ2
\* for dir = FALSE) and, from its basis extension on, has used both.
C16_BuffersPerChain ==
  \A c \in FinishedSwitch \cup Running :
    /\ c.used \subseteq {"BuffQ1", "BuffQ2"}
    /\ c.pc = "modup" /\ c.i = 0 =>
         c.used = {IF c.dir THEN "BuffQ1" ELSE "BuffQ2"}
    /\ c.pc = "ntt" => c.used = {"BuffQ1", "BuffQ2"}
    /\ c.outcome = "ok" => c.used = {"BuffQ1", "BuffQ2"}

\* Two calls in opposite directions returned on one switcher.
C16_Witness ==
  /\ Len(hist) = 2
  /\ hist[1].op = "SwitchNew" /\ hist[2].op = "SwitchNew"
  /\ hist[1].outcome = "ok" /\ hist[2].outcome = "ok"
  /\ hist[1].dir /\ ~hist[2].dir
  /\ hist[1].used = hist[2].used
  /\ calls[1].pc = "idle"

\* C17: every residue row of every component of a ciphertext SwitchNew
\* returns is reduced to [0, q) for its prime q, in both directions.
C17_OutputResiduesReduced ==
  \A h \in FinishedSwitch :
    h.outcome = "ok" =>
      \A k \in DOMAIN h.ctOut.Value :
        \A j \in DOMAIN h.ctOut.Value[k] : ~h.ctOut.Value[k][j].lazy

\* The rows of component k of the output of call c that the call wrote.
Converted(c, k) ==
  {j \in DOMAIN c.ctOut.Value[k] : c.ctOut.Value[k][j].by = c.id}

\* The levels of call c are levels of its chains and its output has room for
\* the destination level.
LevelsFit(c) ==
  /\ AtLevelOK(SourceChain(ms[c.inst], c.dir), c.levelQ1)
  /\ AtLevelOK(DestChain(ms[c.inst], c.dir), c.levelQ2)
  /\ c.levelQ2 <= OutLevel(c.dir, c.levelQ1, c.levelQ2)
  /\ AtLevelOK(OutParams(ms[c.inst], c.dir),
               OutLevel(c.dir, c.levelQ1, c.levelQ2))

\* C18: a SwitchNew on a ciphertext of k components (k = 2 or 3) at levels
\* that fit returns a ciphertext of k components, each converted by the call
\* in rows 0..levelQ2, and never indexes past the end of a scratch buffer
\* (stated for switchers whose chains have one ring degree).
C18_EveryComponentConverted ==
  \A h \in FinishedSwitch :
    (~h.chained /\ LevelsFit(h) /\ SameRingDegree(ms[h.inst])) =>
      /\ h.outcome = "ok"
      /\ Len(h.ctOut.Value) = Len(h.ctIn.Value)
      /\ \A k \in DOMAIN h.ctOut.Value : Converted(h, k) = 1..(h.levelQ2 + 1)
      /\ \A w \in h.writes : w.k <= BuffLen

\* C19: the IsNTT flag of a ciphertext SwitchNew returns tells the
\* representation of every row the call converted (evaluation domain exactly
\* when the flag is set), and all components have one length and one chain
\* (stated for switchers whose chains have one ring degree).
C19_FlagMatchesRepresentation ==
  \A h \in FinishedSwitch :
    (h.outcome = "ok" /\ SameRingDegree(ms[h.inst])) =>
      \A k \in DOMAIN h.ctOut.Value :
        /\ Len(h.ctOut.Value[k]) = Len(h.ctOut.Value[1])
        /\ \A j \in Converted(h, k) :
             /\ h.ctOut.Value[k][j].dom = IF h.ctOut.IsNTT THEN "ntt" ELSE "coef"
             /\ h.ctOut.Value[k][j].q = h.ctOut.Value[1][j].q

----------------------------------------------------------------------------
(* Properties of the example program                                       *)

\* C3: a run of the pipeline in which no evaluator stage returned an error
\* has, once it ended, performed the ten (stage, chain) steps of StageOrder
\* in that order, each exactly once, and at every moment a prefix of them.
C3_PipelineSequence ==
  main.status # "idle" =>
    /\ Len(main.trace) <= Len(StageOrder)
    /\ \A k \in 1..Len(main.trace) :
         /\ main.trace[k].stage = StageOrder[k].stage
         /\ main.trace[k].chain = StageOrder[k].chain
    /\ (main.status \in {"done", "aborted"} /\ ~main.extFail) =>
         /\ Len(main.trace) = Len(StageOrder)
         /\ \A k \in 1..Len(main.trace) : main.trace[k].ok

\* C15: in a run with the example's chains (chain1 from LogQ, chain2 from
\* LogQ2) every SwitchNew of the pipeline is made at a source level whose
\* destination level lies in 0..maxLevel(destination chain).
C15_ExampleSwitchLevelsValid ==
  (/\ main.status # "idle"
   /\ ms[1].exists
   /\ ms[1].params1 = MainParams(ExampleLogQ, main.short)
   /\ ms[1].params2 = MainParams(ExampleLogQ2, main.short)) =>
    \A h \in FinishedSwitch :
      LET l == ExpectedLevel(ms[1], h.dir, Level(h.ctIn))
      IN l >= 0 /\ l <= MaxLevelQ(DestChain(ms[1], h.dir))

----------------------------------------------------------------------------
(* Properties of interleaved calls                                         *)

\* C10: a SwitchNew call reads a scratch-buffer row written by another call
\* only if that other call ran on the same ModulusSwitcher; calls on separate
\* instances never read each other's rows.
C10_RaceOnlyOnSharedInstance ==
  \A c \in FinishedSwitch \cup Running :
    \A t \in c.reads \ {c.id} :
      \E d \in FinishedSwitch \cup Running : d.id = t /\ d.inst = c.inst

\* Two calls in flight on one instance, one having read a row the other wrote.
C10_Witness ==
  \E c \in Running, d \in Running :
    /\ c.id # d.id
    /\ c.inst = d.inst
    /\ d.id \in c.reads

====
